---- MODULE Spec2Model ----
(***************************************************************************)
(* Model of the slack-wizard worker (src/src/index.ts): the Hono routes    *)
(* POST /ask (retrieval-augmented answer) and POST /ingest/:channelId      *)
(* (fetch channel history with replies, embed, upsert into Vectorize).     *)
(*                                                                         *)
(* Every `await` of a handler is a step boundary.  The external services   *)
(* (Slack, the embedding and completion provider, Vectorize) answer        *)
(* nondeterministically: each call either rejects or resolves to a value   *)
(* drawn from a small set.                                                 *)
(*                                                                         *)
(* Similarity scores are modelled in hundredths: 50 stands for 0.5.        *)
(***************************************************************************)
EXTENDS Integers, Sequences, FiniteSets, TLC

VARIABLES
    askPc,        \* position of the POST /ask handler
    askBody,      \* the request body of POST /ask
    askCalls,     \* downstream calls the /ask handler has issued, in order
    askStore,     \* what VECTORIZE.query resolved to (before the .then filter)
    askResult,    \* queryResult: the store's answer after the .then filter
    askPrompt,    \* the context block of the prompt handed to generateText
    askThrown,    \* the error thrown inside the /ask handler, if any
    askResponse,  \* the HTTP response of POST /ask
    ingPc,        \* position of each POST /ingest/:channelId request
    ingChannel,   \* c.req.param("channelId") of each request
    ingHistory,   \* messages.messages as conversations.history returned it
    ingMessages,  \* what getMessagesWithReplies returned
    ingThrown,    \* the error thrown inside the /ingest handler, if any
    ingTask,      \* per message: position of its async callback
    ingResults,   \* per message: what its async callback resolved to
    ingCalls,     \* downstream calls each request has issued
    ingResponse,  \* the HTTP response of each request
    vectorStore   \* the records of the Vectorize index

askVars == <<askPc, askBody, askCalls, askStore, askResult, askPrompt,
             askThrown, askResponse>>
ingVars == <<ingPc, ingChannel, ingHistory, ingMessages, ingThrown, ingTask,
             ingResults, ingCalls, ingResponse, vectorStore>>
vars == <<askPc, askBody, askCalls, askStore, askResult, askPrompt,
          askThrown, askResponse, ingPc, ingChannel, ingHistory, ingMessages,
          ingThrown, ingTask, ingResults, ingCalls, ingResponse, vectorStore>>

-----------------------------------------------------------------------------
(* JavaScript values of the request body                                   *)

Undefined == [t |-> "undefined", v |-> ""]

\* The values the "query" property of a JSON body can hold.
QueryValues ==
    { Undefined,
      [t |-> "null", v |-> ""],
      [t |-> "string", v |-> ""],
      [t |-> "string", v |-> "how do I deploy?"],
      [t |-> "number", v |-> "0"],
      [t |-> "number", v |-> "7"],
      [t |-> "boolean", v |-> "false"],
      [t |-> "boolean", v |-> "true"],
      [t |-> "object", v |-> "{}"] }

\* Request bodies: text that is not JSON, the JSON value null, a JSON
\* primitive, and JSON objects with or without a "query" property.
AskBodies ==
    { [kind |-> "invalid", query |-> Undefined],
      [kind |-> "null", query |-> Undefined],
      [kind |-> "primitive", query |-> Undefined] }
    \cup { [kind |-> "object", query |-> q] : q \in QueryValues }

\* !x is false exactly for the truthy values.
Truthy(x) ==
    CASE x.t = "undefined" -> FALSE
      [] x.t = "null" -> FALSE
      [] x.t = "string" -> x.v # ""
      [] x.t = "number" -> x.v # "0"
      [] x.t = "boolean" -> x.v = "true"
      [] OTHER -> TRUE

\* if (!query || typeof query !== "string")
QueryRejected(query) == ~Truthy(query) \/ query.t # "string"

\* const { query } = await c.req.json(): rejects on text that is not JSON,
\* throws a TypeError when the parsed value is null.
JsonThrows(body) == body.kind \in {"invalid", "null"}

-----------------------------------------------------------------------------
(* Responses                                                               *)

NoResponse == [status |-> 0, body |-> [none |-> TRUE]]

NoError == [from |-> "none", message |-> ""]

\* Messages an upstream failure can carry (err.message may be empty).
ErrorMessages == {"", "upstream failed"}

\* .onError((err, c) => c.json({ error: err.message || "Internal server error" }, 500))
onError(err) ==
    [status |-> 500,
     body |-> [error |-> IF err.message # "" THEN err.message
                         ELSE "Internal server error"]]

BadQueryResponse ==
    [status |-> 400, body |-> [error |-> "Query is required and must be a string"]]

CannedAnswer == "I couldn't find any relevant information to answer your question."

-----------------------------------------------------------------------------
(* The threshold filter of POST /ask                                       *)

Threshold == 50
TopK == 3

Scores == {40, 50, 51, 60, 90}

\* metadata?.content of a match; "undefined" when the metadata is absent.
NoContent == "undefined"
Contents == {"deploy with wrangler", NoContent}

Match == [score : Scores, content : Contents]

\* Vectorize ranks its matches by descending similarity, at most topK of them.
Ranked(ms) == \A i \in 1..(Len(ms) - 1) : ms[i].score >= ms[i + 1].score

StoreAnswers ==
    { ms \in UNION { [1..n -> Match] : n \in 0..TopK } : Ranked(ms) }

\* A filter that keeps a score equal to the threshold.
AtLeastThreshold(match) == match.score >= Threshold

\* results.matches.filter((match) => match.score > 0.5)
AboveThreshold(match) == match.score > Threshold

FilterMatches(ms) == SelectSeq(ms, AboveThreshold)

\* A .then callback that hands the store's answer on unfiltered.
ThenUnfiltered(ms) == ms

\* The .then callback on VECTORIZE.query: results.count is the number of
\* matches the store returned.
ThenFilter(ms) == IF Len(ms) = 0 THEN ms ELSE FilterMatches(ms)

\* queryResult.matches.map((match) => match.metadata?.content || "")
PromptContext(ms) ==
    [i \in 1..Len(ms) |-> IF ms[i].content = NoContent THEN "" ELSE ms[i].content]

\* sources: queryResult.matches.filter(score > 0.5).map(({score, content}))
Sources(ms) ==
    LET kept == FilterMatches(ms)
    IN  [i \in 1..Len(kept) |-> [score |-> kept[i].score, content |-> kept[i].content]]

Answers == {"", "Run wrangler deploy."}

-----------------------------------------------------------------------------
(* POST /ask                                                               *)

AskInit ==
    /\ askPc = "start"
    /\ askBody \in AskBodies
    /\ askCalls = <<>>
    /\ askStore = <<>>
    /\ askResult = <<>>
    /\ askPrompt = <<>>
    /\ askThrown = NoError
    /\ askResponse = NoResponse

\* No POST /ask request is under way.
AskIdle ==
    /\ askPc = "idle"
    /\ askBody = [kind |-> "object", query |-> Undefined]
    /\ askCalls = <<>>
    /\ askStore = <<>>
    /\ askResult = <<>>
    /\ askPrompt = <<>>
    /\ askThrown = NoError
    /\ askResponse = NoResponse

AskFail(from, message) ==
    /\ askThrown' = [from |-> from, message |-> message]
    /\ askResponse' = onError([from |-> from, message |-> message])
    /\ askPc' = "done"

\* Lines 108-112: parse the body and validate the query.
AskValidate ==
    /\ askPc = "start"
    /\ \/ /\ JsonThrows(askBody)
          /\ \E m \in ErrorMessages \ {""} : AskFail("json", m)
       \/ /\ ~JsonThrows(askBody)
          /\ QueryRejected(askBody.query)
          /\ askResponse' = BadQueryResponse
          /\ askPc' = "done"
          /\ UNCHANGED askThrown
       \/ /\ ~JsonThrows(askBody)
          /\ ~QueryRejected(askBody.query)
          /\ askPc' = "embed"
          /\ UNCHANGED <<askThrown, askResponse>>
    /\ UNCHANGED <<askBody, askCalls, askStore, askResult, askPrompt>>
    /\ UNCHANGED ingVars

\* An embed step that swallows the failure and goes on to the store.
AskEmbedSwallow ==
    /\ askPc = "embed"
    /\ askCalls' = Append(askCalls, "embed")
    /\ \/ /\ \E m \in ErrorMessages : askThrown' = [from |-> "embed", message |-> m]
          /\ askPc' = "query"
          /\ UNCHANGED askResponse
       \/ /\ askPc' = "query"
          /\ UNCHANGED <<askThrown, askResponse>>
    /\ UNCHANGED <<askBody, askStore, askResult, askPrompt>>
    /\ UNCHANGED ingVars

\* Lines 115-118: embed the query.
AskEmbed ==
    /\ askPc = "embed"
    /\ askCalls' = Append(askCalls, "embed")
    /\ \/ \E m \in ErrorMessages : AskFail("embed", m)
       \/ /\ askPc' = "query"
          /\ UNCHANGED <<askThrown, askResponse>>
    /\ UNCHANGED <<askBody, askStore, askResult, askPrompt>>
    /\ UNCHANGED ingVars

\* Lines 121-155: query the store, filter, short-circuit or build the prompt.
AskQuery ==
    /\ askPc = "query"
    /\ askCalls' = Append(askCalls, "query")
    /\ \/ /\ \E m \in ErrorMessages : AskFail("query", m)
          /\ UNCHANGED <<askStore, askResult, askPrompt>>
       \/ \E ms \in StoreAnswers :
            /\ askStore' = ms
            /\ askResult' = ThenFilter(ms)
            /\ IF Len(ThenFilter(ms)) = 0
               THEN /\ askResponse' = [status |-> 200, body |-> [answer |-> CannedAnswer]]
                    /\ askPc' = "done"
                    /\ UNCHANGED askPrompt
               ELSE /\ askPrompt' = PromptContext(ThenFilter(ms))
                    /\ askPc' = "generate"
                    /\ UNCHANGED askResponse
            /\ UNCHANGED askThrown
    /\ UNCHANGED askBody
    /\ UNCHANGED ingVars

\* Lines 158-172: generate the answer and respond.
AskGenerate ==
    /\ askPc = "generate"
    /\ askCalls' = Append(askCalls, "generateText")
    /\ \/ \E m \in ErrorMessages : AskFail("generateText", m)
       \/ \E text \in Answers :
            /\ askResponse' = [status |-> 200,
                               body |-> [answer |-> text, sources |-> Sources(askResult)]]
            /\ askPc' = "done"
            /\ UNCHANGED askThrown
    /\ UNCHANGED <<askBody, askStore, askResult, askPrompt>>
    /\ UNCHANGED ingVars

-----------------------------------------------------------------------------
(* Slack messages and what the ingestion builds from them                  *)

Requests == {1, 2}
Channels == {"C01", "C02"}

\* Bound on the number of messages fetched by all requests together.
MaxMessages == 2

NoTs == "undefined"
NoId == "undefined"

\* Messages of conversations.history: a user message carries ts and
\* client_msg_id, a bot or system message carries no client_msg_id, and ts
\* is optional in the client's type.
SlackMessage ==
    { [ts |-> "1700000000.000100", client_msg_id |-> "m1", text |-> "how do I deploy?"],
      [ts |-> "1700000000.000100", client_msg_id |-> "m2", text |-> "how do I deploy?"],
      [ts |-> "1700000000.000100", client_msg_id |-> NoId, text |-> "how do I deploy?"],
      [ts |-> NoTs, client_msg_id |-> "m1", text |-> "how do I deploy?"] }

ReplyTexts == {<<>>, <<"use wrangler">>}
ReplyFailed == <<"rejected">>
ReplyOutcomes == ReplyTexts \cup {ReplyFailed}

\* if (!message.ts) return null
HasTs(message) == message.ts \notin {NoTs, ""}

NullMessage ==
    [null |-> TRUE, ts |-> NoTs, client_msg_id |-> NoId, text |-> "", replies |-> <<>>]

\* return { ...message, replies }
WithReplies(message, replies) ==
    [null |-> FALSE, ts |-> message.ts, client_msg_id |-> message.client_msg_id,
     text |-> message.text, replies |-> replies]

\* The value getMessagesWithReplies resolves to when no fetch rejects:
\* Promise.all keeps the order of messages.messages.
getMessagesWithReplies(history, replies) ==
    [i \in 1..Len(history) |->
        IF HasTs(history[i]) THEN WithReplies(history[i], replies[i])
        ELSE NullMessage]

\* The template literal: the question followed by the reply texts.
Content(msg) == [question |-> msg.text, replies |-> msg.replies]

\* The record handed to VECTORIZE.upsert.
UpsertRecord(channelId, msg) ==
    [id |-> msg.client_msg_id, namespace |-> channelId, content |-> Content(msg)]

\* A plain insert: adds the record beside any record of the same id.
VectorizeInsert(store, rec) == store \cup {rec}

\* c.env.VECTORIZE.upsert([rec]): inserts, or replaces the record of the
\* same id in the same namespace.
VectorizeUpsert(store, rec) ==
    { x \in store : ~(x.id = rec.id /\ x.namespace = rec.namespace) } \cup {rec}

Pending == [kind |-> "pending"]
UndefinedResult == [kind |-> "undefined"]

\* return { id, content, vectors }
TaskValue(msg) ==
    [kind |-> "value", id |-> msg.client_msg_id, content |-> Content(msg),
     vectors |-> "mutation"]

JsonNull == [kind |-> "null"]

\* JSON.stringify writes an undefined array element as null.
JsonArray(results) ==
    [i \in 1..Len(results) |->
        IF results[i].kind = "undefined" THEN JsonNull ELSE results[i]]

\* A settle that fills the first slot still pending (completion order).
SettleFirstPending(results, i, value) ==
    LET first == CHOOSE k \in 1..Len(results) :
                    /\ results[k] = Pending
                    /\ \A j \in 1..(k - 1) : results[j] # Pending
    IN  [results EXCEPT ![first] = value]

\* Promise.all: the value of the i-th promise lands in slot i.
SettleAt(results, i, value) == [results EXCEPT ![i] = value]

Fetched == Len(ingHistory[1]) + Len(ingHistory[2])

Histories(n) == UNION { [1..k -> SlackMessage] : k \in 0..n }

-----------------------------------------------------------------------------
(* POST /ingest/:channelId                                                 *)

IngInit ==
    /\ ingPc = [r \in Requests |-> "start"]
    /\ ingChannel = [r \in Requests |-> "C01"]
    /\ ingHistory = [r \in Requests |-> <<>>]
    /\ ingMessages = [r \in Requests |-> <<>>]
    /\ ingThrown = [r \in Requests |-> NoError]
    /\ ingTask = [r \in Requests |-> <<>>]
    /\ ingResults = [r \in Requests |-> <<>>]
    /\ ingCalls = [r \in Requests |-> {}]
    /\ ingResponse = [r \in Requests |-> NoResponse]
    /\ vectorStore = {}

IngestFail(r, from, message) ==
    /\ ingThrown' = [ingThrown EXCEPT ![r] = [from |-> from, message |-> message]]
    /\ ingResponse' = [ingResponse EXCEPT ![r] = onError([from |-> from, message |-> message])]
    /\ ingPc' = [ingPc EXCEPT ![r] = "done"]

\* Lines 61-71: read the channel, fetch the history and every reply thread,
\* then start one async callback per message.  A callback runs up to its
\* first await at once: it returns for a null message and calls embed for
\* any other.
IngestFetch(r) ==
    /\ ingPc[r] = "start"
    /\ \E ch \in Channels :
        /\ ingChannel' = [ingChannel EXCEPT ![r] = ch]
        /\ \/ /\ \E m \in ErrorMessages : IngestFail(r, "history", m)
              /\ ingCalls' = [ingCalls EXCEPT ![r] = {<<"history", 0>>}]
              /\ UNCHANGED <<ingHistory, ingMessages, ingTask, ingResults>>
           \/ \E h \in Histories(MaxMessages - Fetched) :
              \E replies \in [1..Len(h) -> ReplyOutcomes] :
                /\ \A i \in 1..Len(h) : ~HasTs(h[i]) => replies[i] = <<>>
                /\ ingHistory' = [ingHistory EXCEPT ![r] = h]
                /\ IF \E i \in 1..Len(h) : replies[i] = ReplyFailed
                   THEN /\ \E m \in ErrorMessages : IngestFail(r, "replies", m)
                        /\ ingCalls' = [ingCalls EXCEPT ![r] =
                              {<<"history", 0>>}
                              \cup {<<"replies", i>> : i \in {k \in 1..Len(h) : HasTs(h[k])}}]
                        /\ UNCHANGED <<ingMessages, ingTask, ingResults>>
                   ELSE LET msgs == getMessagesWithReplies(h, replies) IN
                        /\ ingMessages' = [ingMessages EXCEPT ![r] = msgs]
                        /\ ingTask' = [ingTask EXCEPT ![r] =
                              [i \in 1..Len(msgs) |->
                                  IF msgs[i].null THEN "skipped" ELSE "embed"]]
                        /\ ingResults' = [ingResults EXCEPT ![r] =
                              [i \in 1..Len(msgs) |->
                                  IF msgs[i].null THEN UndefinedResult ELSE Pending]]
                        /\ ingCalls' = [ingCalls EXCEPT ![r] =
                              {<<"history", 0>>}
                              \cup {<<"replies", i>> : i \in {k \in 1..Len(h) : HasTs(h[k])}}
                              \cup {<<"embed", i>> : i \in {k \in 1..Len(msgs) : ~msgs[k].null}}]
                        /\ ingPc' = [ingPc EXCEPT ![r] = "process"]
                        /\ UNCHANGED <<ingThrown, ingResponse>>
    /\ UNCHANGED vectorStore
    /\ UNCHANGED askVars

\* The callback's failure escapes: Promise.all rejects and the route fails.
IngestRethrow(r, i, from) ==
    /\ \E m \in ErrorMessages : IngestFail(r, from, m)
    /\ ingTask' = [ingTask EXCEPT ![r][i] = "failed"]
    /\ ingResults' = [ingResults EXCEPT ![r] = SettleAt(ingResults[r], i, UndefinedResult)]

\* Lines 96-98: catch (error) { console.error(...) }: the callback resolves
\* to undefined and the batch goes on.
IngestCatch(r, i, from) ==
    /\ ingTask' = [ingTask EXCEPT ![r][i] = "failed"]
    /\ ingResults' = [ingResults EXCEPT ![r] = SettleAt(ingResults[r], i, UndefinedResult)]
    /\ UNCHANGED <<ingPc, ingThrown, ingResponse>>

\* Lines 81-84: the embed call of message i settles; on success the callback
\* goes on to issue the upsert.
IngestEmbed(r, i) ==
    /\ ingPc[r] = "process"
    /\ ingTask[r][i] = "embed"
    /\ \/ /\ IngestCatch(r, i, "embed")
          /\ UNCHANGED ingCalls
       \/ /\ ingTask' = [ingTask EXCEPT ![r][i] = "upsert"]
          /\ ingCalls' = [ingCalls EXCEPT ![r] = @ \cup {<<"upsert", i>>}]
          /\ UNCHANGED <<ingPc, ingThrown, ingResponse, ingResults>>
    /\ UNCHANGED <<ingChannel, ingHistory, ingMessages, vectorStore>>
    /\ UNCHANGED askVars

\* Lines 86-95: the upsert of message i settles and the callback returns.
IngestUpsert(r, i) ==
    /\ ingPc[r] = "process"
    /\ ingTask[r][i] = "upsert"
    /\ \/ /\ IngestCatch(r, i, "upsert")
          /\ UNCHANGED vectorStore
       \/ /\ vectorStore' = VectorizeUpsert(vectorStore,
                                UpsertRecord(ingChannel[r], ingMessages[r][i]))
          /\ ingTask' = [ingTask EXCEPT ![r][i] = "ok"]
          /\ ingResults' = [ingResults EXCEPT ![r] =
                SettleAt(ingResults[r], i, TaskValue(ingMessages[r][i]))]
          /\ UNCHANGED <<ingPc, ingThrown, ingResponse>>
    /\ UNCHANGED <<ingChannel, ingHistory, ingMessages, ingCalls>>
    /\ UNCHANGED askVars

\* Lines 102-105: every callback has settled; respond.
IngestRespond(r) ==
    /\ ingPc[r] = "process"
    /\ \A i \in 1..Len(ingTask[r]) : ingTask[r][i] \in {"skipped", "failed", "ok"}
    /\ ingResponse' = [ingResponse EXCEPT ![r] =
          [status |-> 200,
           body |-> [processed |-> Len(ingResults[r]),
                     messages |-> JsonArray(ingResults[r])]]]
    /\ ingPc' = [ingPc EXCEPT ![r] = "done"]
    /\ UNCHANGED <<ingChannel, ingHistory, ingMessages, ingThrown, ingTask,
                   ingResults, ingCalls, vectorStore>>
    /\ UNCHANGED askVars

-----------------------------------------------------------------------------
(* Specifications                                                          *)

InitAsk == AskInit /\ IngInit

InitIngest == AskIdle /\ IngInit

AskNext == AskValidate \/ AskEmbed \/ AskQuery \/ AskGenerate

IngestNext ==
    \E r \in Requests :
        \/ IngestFetch(r)
        \/ \E i \in 1..Len(ingTask[r]) : IngestEmbed(r, i)
        \/ \E i \in 1..Len(ingTask[r]) : IngestUpsert(r, i)
        \/ IngestRespond(r)

\* One POST /ask request.
SpecAsk == InitAsk /\ [][AskNext]_vars

\* Two POST /ingest requests, free to overlap.
SpecIngest == InitIngest /\ [][IngestNext]_vars

-----------------------------------------------------------------------------
(* Properties of POST /ask                                                 *)

\* The store answered the query of this request.
AskQueried == Len(askCalls) >= 2 /\ askThrown.from # "query"

ScoresOf(ms) == [i \in 1..Len(ms) |-> ms[i].score]

\* The request carries no usable query: no JSON object, no "query" in it,
\* an empty one or one that is no string.
QueryMissingOrInvalid ==
    \/ askBody.kind # "object"
    \/ askBody.query.t # "string"
    \/ askBody.query.v = ""

\* C1: every request whose query is missing, empty or not a string is
\* answered 400 { error: "Query is required and must be a string" } and
\* makes no call to the embedding client, the store or the completion client.
C1_BadQueryGets400 ==
    (askPc = "done" /\ QueryMissingOrInvalid) =>
        /\ askResponse.status = 400
        /\ askResponse.body = [error |-> "Query is required and must be a string"]
        /\ askCalls = <<>>

\* C2: when no match of the store's answer has a score above the threshold,
\* generateText is never called and the response is the canned answer.
C2_NoCompletionWithoutMatches ==
    (AskQueried /\ \A i \in 1..Len(askStore) : askStore[i].score <= Threshold) =>
        /\ askCalls = <<"embed", "query">>
        /\ askPc = "done"
        /\ askResponse.status = 200
        /\ askResponse.body.answer = CannedAnswer

C2_Witness ==
    /\ askPc = "done"
    /\ AskQueried
    /\ Len(askStore) = 3
    /\ \A i \in 1..Len(askStore) : askStore[i].score <= Threshold
    /\ askResponse.status = 200

\* C3: the matches used for the prompt context are exactly the store's
\* matches with a score strictly above 0.5, in the store's order: none at
\* the threshold, all above it, and [0.9, 0.6, 0.4] leaves [0.9, 0.6].
C3_ContextIsMatchesAboveThreshold ==
    AskQueried =>
        /\ \A i \in 1..Len(askResult) : askResult[i].score > Threshold
        /\ Len(askResult) =
              Cardinality({i \in 1..Len(askStore) : askStore[i].score > Threshold})
        /\ \E f \in [1..Len(askResult) -> 1..Len(askStore)] :
              /\ \A j \in 1..Len(askResult) : askResult[j] = askStore[f[j]]
              /\ \A j \in 1..(Len(askResult) - 1) : f[j] < f[j + 1]
        /\ Len(askPrompt) = Len(askResult)
        /\ \A i \in 1..Len(askResult) :
              askPrompt[i] = IF askResult[i].content = NoContent THEN ""
                             ELSE askResult[i].content
        /\ ScoresOf(askStore) = <<90, 60, 40>> => ScoresOf(askResult) = <<90, 60>>

C3_Witness ==
    /\ askPc = "generate"
    /\ ScoresOf(askStore) = <<90, 60, 40>>
    /\ ScoresOf(askResult) = <<90, 60>>
    /\ Len(askPrompt) = 2

\* C9: every 200 response carries an answer and a sources list, and sources
\* holds the score and content of the matches that survived the filter, in
\* order.
C9_OkResponseHasAnswerAndSources ==
    askResponse.status = 200 =>
        /\ "answer" \in DOMAIN askResponse.body
        /\ "sources" \in DOMAIN askResponse.body
        /\ askResponse.body.sources =
              [i \in 1..Len(askResult) |->
                  [score |-> askResult[i].score, content |-> askResult[i].content]]

\* C10: the calls form the single chain embed, query, generateText, each at
\* most once; after a failed embed nothing else is called, after a failed
\* query no completion is called, and a failure of any of the three ends
\* the request with 500 and an error field.
C10_SingleChainFailsWith500 ==
    /\ \E n \in 0..3 : askCalls = SubSeq(<<"embed", "query", "generateText">>, 1, n)
    /\ askThrown.from = "embed" => askCalls = <<"embed">>
    /\ askThrown.from = "query" => askCalls = <<"embed", "query">>
    /\ askThrown.from \in {"embed", "query", "generateText"} =>
          /\ askPc = "done"
          /\ askResponse.status = 500
          /\ "error" \in DOMAIN askResponse.body

C10_Witness ==
    /\ askPc = "done"
    /\ askThrown.from = "query"
    /\ askCalls = <<"embed", "query">>
    /\ askResponse.status = 500

-----------------------------------------------------------------------------
(* Properties of POST /ingest/:channelId                                   *)

\* The result the callback of message i of request r returns on success.
ResultFor(r, i) ==
    [kind |-> "value",
     id |-> ingHistory[r][i].client_msg_id,
     content |-> [question |-> ingHistory[r][i].text,
                  replies |-> ingMessages[r][i].replies],
     vectors |-> "mutation"]

RecordsOf(ns, id) == { x \in vectorStore : x.namespace = ns /\ x.id = id }

\* C4: a failed reply fetch does not abort the batch: the request still
\* ends with 200 and the messages whose replies were fetched are embedded.
C4_ReplyFailureTolerated ==
    \A r \in Requests :
        (ingPc[r] = "done" /\ ingThrown[r].from = "replies") =>
            /\ ingResponse[r].status = 200
            /\ \E i \in 1..Len(ingHistory[r]) : <<"embed", i>> \in ingCalls[r]

\* C5: a fetched message that lacks an identifier field (ts or
\* client_msg_id) gets no embed call and no upsert.
C5_MessagesWithoutIdentifierExcluded ==
    \A r \in Requests : \A i \in 1..Len(ingHistory[r]) :
        (~HasTs(ingHistory[r][i]) \/ ingHistory[r][i].client_msg_id = NoId) =>
            /\ <<"embed", i>> \notin ingCalls[r]
            /\ <<"upsert", i>> \notin ingCalls[r]

\* C6: once the messages are fetched, an embed or upsert failure never
\* fails the batch: the response is 200, and every message whose embed and
\* upsert succeeded has a record in the store and its result in the response.
C6_TaskFailureNeverFailsBatch ==
    \A r \in Requests :
        (ingPc[r] = "done" /\ ingThrown[r].from \notin {"history", "replies"}) =>
            /\ ingResponse[r].status = 200
            /\ \A i \in 1..Len(ingTask[r]) :
                  ingTask[r][i] = "ok" =>
                      /\ RecordsOf(ingChannel[r], ingHistory[r][i].client_msg_id) # {}
                      /\ ingResponse[r].body.messages[i].kind = "value"
                      /\ ingResponse[r].body.messages[i].id =
                            ingHistory[r][i].client_msg_id

C6_Witness ==
    \E r \in Requests :
        /\ ingPc[r] = "done"
        /\ ingResponse[r].status = 200
        /\ Len(ingTask[r]) = 2
        /\ ingTask[r][1] = "failed"
        /\ ingTask[r][2] = "ok"

\* C7: the store never holds two records for one id in one namespace, and
\* a message upserted by one request or by several has exactly one.
C7_OneRecordPerMessageId ==
    /\ \A x \in vectorStore :
          Cardinality(RecordsOf(x.namespace, x.id)) = 1
    /\ \A r \in Requests : \A i \in 1..Len(ingTask[r]) :
          ingTask[r][i] = "ok" =>
              Cardinality(RecordsOf(ingChannel[r], ingHistory[r][i].client_msg_id)) = 1

C7_Witness ==
    /\ ingPc[1] = "done" /\ ingPc[2] = "done"
    /\ ingChannel[1] = ingChannel[2]
    /\ Len(ingTask[1]) = 1 /\ Len(ingTask[2]) = 1
    /\ ingTask[1][1] = "ok" /\ ingTask[2][1] = "ok"
    /\ ingHistory[1][1].client_msg_id = "m1"
    /\ ingHistory[2][1].client_msg_id = "m1"
    /\ ingMessages[1][1].replies # ingMessages[2][1].replies
    /\ Cardinality(RecordsOf(ingChannel[1], "m1")) = 1

\* C8: the 200 response lists one entry per fetched message in fetch order:
\* entry i is the result of message i, or null when message i was skipped
\* or failed; processed is the number of fetched messages.
C8_ResultsKeepFetchOrder ==
    \A r \in Requests :
        (ingPc[r] = "done" /\ ingResponse[r].status = 200) =>
            /\ ingResponse[r].body.processed = Len(ingHistory[r])
            /\ Len(ingResponse[r].body.messages) = Len(ingHistory[r])
            /\ \A i \in 1..Len(ingHistory[r]) :
                  ingResponse[r].body.messages[i] =
                      IF ingTask[r][i] = "ok" THEN ResultFor(r, i) ELSE JsonNull

C8_Witness ==
    \E r \in Requests :
        /\ ingPc[r] = "done"
        /\ ingResponse[r].status = 200
        /\ ingResponse[r].body.processed = 2
        /\ ingResponse[r].body.messages[1] = JsonNull
        /\ ingResponse[r].body.messages[2] = ResultFor(r, 2)
        /\ ingHistory[r][2].client_msg_id = "m2"

====
